---- MODULE Spec2Model ----
(***************************************************************************)
(* A model of visvis' lineToMesh (processing/lineToMesh.py): the tube      *)
(* mesh built around a 3D poly-line.                                       *)
(*                                                                         *)
(* Numbers.  The code computes in floating point; the model computes the   *)
(* same expressions exactly, on inputs for which every value that is       *)
(* stored is rational:                                                     *)
(*   - curve points are integer lattice points and consecutive points are  *)
(*     one axis-aligned unit step apart, so the per-point tangents         *)
(*     ("normals" in the code) are exact unit vectors;                     *)
(*   - a position or a length is an integer count of 1/Scale lattice       *)
(*     units, Scale chosen so that /2.2, j/5.0, *0.5858 and *0.4142 are    *)
(*     exact;                                                              *)
(*   - a frame vector (a, b, the joint tangent) is held as the primitive   *)
(*     integer vector on its ray and denotes the unit vector along it:     *)
(*     normalize() maps a vector to that representative;                   *)
(*   - a circle of rim points cos(t_k)*a + sin(t_k)*b is held as its       *)
(*     angles (the k of t_k = k*2*pi/vertex_num) and its frame (a, b);     *)
(*   - a Pointset is held as the sequence of the blocks extended to it,    *)
(*     each block the points of one circle: NumPoints is its length.       *)
(* A vector whose components are all NaN is the value VNaN.                *)
(*                                                                         *)
(* The Point and Pointset operations (pypoints) are the standard ones of   *)
(* a 3-component vector: p - q is the vector from q to p.                  *)
(***************************************************************************)
EXTENDS Integers, Sequences, FiniteSets, TLC

\* ---------------------------------------------------------------- bounds
MaxN == 5
\* The largest component of a tangent or frame vector given to getSpanVectors.
MaxComp == 1

MaxVertexNum == 3

\* Radii, in quarters of a lattice unit.
Radii == {1, 2}

\* The lattice box the curve points are drawn from.
Box == {<<x, y, z>> : x \in 0..2, y \in 0..1, z \in 0..1}

Origin == <<0, 0, 0>>

\* 1/Scale lattice units is the unit of positions and lengths.
Scale == 4 * 11 * 20000

RadiusUnit == Scale \div 4

\* ------------------------------------------------------- vector algebra
VNaN == <<>>

IsNaN(u) == u = VNaN

Add(u, w) ==
    IF IsNaN(u) \/ IsNaN(w) THEN VNaN
    ELSE <<u[1] + w[1], u[2] + w[2], u[3] + w[3]>>

Scl(k, u) ==
    IF IsNaN(u) THEN VNaN ELSE <<k * u[1], k * u[2], k * u[3]>>

Sub(u, w) == Add(u, Scl(-1, w))

Cross(u, w) ==
    IF IsNaN(u) \/ IsNaN(w) THEN VNaN
    ELSE <<u[2] * w[3] - u[3] * w[2],
           u[3] * w[1] - u[1] * w[3],
           u[1] * w[2] - u[2] * w[1]>>

Dot(u, w) == u[1] * w[1] + u[2] * w[2] + u[3] * w[3]

Norm2(u) == Dot(u, u)

Abs(n) == IF n < 0 THEN -n ELSE n

RECURSIVE GCD(_, _)
GCD(m, n) == IF n = 0 THEN m ELSE GCD(n, m % n)

\* u / ||u||, as the primitive vector on u's ray; 0/0 is NaN.
Normalize(u) ==
    IF IsNaN(u) THEN VNaN
    ELSE LET g == GCD(GCD(Abs(u[1]), Abs(u[2])), Abs(u[3]))
         IN  IF g = 0 THEN VNaN
             ELSE <<u[1] \div g, u[2] \div g, u[3] \div g>>

\* ||u - w|| of lattice points, in 1/Scale units (the points are on one axis line).
Distance(u, w) ==
    Scale * (Abs(u[1] - w[1]) + Abs(u[2] - w[2]) + Abs(u[3] - w[3]))

\* pp[0] == pp[-1]: exact equality of the coordinates.
PointEq(u, w) == u = w

\* x * num / den, exact on the multiples of den.
Frac(num, den, x) == (x \div den) * num

FracV(num, den, u) == <<Frac(num, den, u[1]), Frac(num, den, u[2]), Frac(num, den, u[3])>>

\* A lattice point in 1/Scale units.
Pos(p) == Scl(Scale, p)

\* ------------------------------------------------------ program constants
\* a1.norm() < 0.001
NormEpsInv == 1000

\* dists.min() / 2.2  ==  dists.min() * 10 / 22
BufNum == 10

BufDen == 22

\* the caps are built from j/5.0, j in range(5,0,-1) and range(0,6)
CapSteps == 5

\* point12 = 0.5858*point2 + 0.4142*(0.5*tmp), in 1/10000
JointW1 == 5858

JointW2 == 4142

JointDen == 10000

\* np.arange(0, pi*2-0.0001, pi*2/vertex_num), 2*pi/0.0001 in 1/10000
TwoPiOverEps == 628318531

ArangeDen == 10000

\* ---------------------------------------------------------- getSpanVectors
\* u.norm() < 0.001 for the vector u/s, s2 = s*s the squared scale of u's representative.
NormBelow(u, s2) ==
    IF IsNaN(u) THEN FALSE
    ELSE Norm2(u) * NormEpsInv * NormEpsInv < s2

\* ||c - x||^2 on representatives. It is only compared for x and -x, where the
\* squared terms are equal and the comparison is that of the cross terms -2*c.x,
\* whatever the (positive) scales of the representatives.
Dist2(c, x) == Norm2(Sub(c, x))

\* c.distance(x) > c.distance(y); a comparison with NaN is False.
DistGreater(c, x, y) ==
    IF IsNaN(c) \/ IsNaN(x) \/ IsNaN(y) THEN FALSE
    ELSE Dist2(c, x) > Dist2(c, y)

\* The scale (squared) of the representative Cross(d, normal) of d x normal.
CrossScale2(d, normal) ==
    IF IsNaN(d) \/ IsNaN(normal) THEN 1 ELSE Norm2(d) * Norm2(normal)

\* a1 without the fallback to the previous a.
SpanA1NoFallback(normal, c, d) == Cross(d, normal)

\* a1 after the "Calculate a from previous b" step and its fallback.
SpanA1(normal, c, d) ==
    LET a1 == Cross(d, normal)
    IN  IF NormBelow(a1, CrossScale2(d, normal))
        THEN Cross(Cross(c, normal), normal)
        ELSE a1

\* No choice between a1 and its opposite.
SpanPickKeep(c, a1) == a1

\* a1 after "Consider the opposite direction".
SpanPick(c, a1) ==
    LET a2 == Scl(-1, a1)
    IN  IF DistGreater(c, a1, a2) THEN a2 ELSE a1

getSpanVectors(normal, c, d) ==
    LET a1 == SpanPick(c, SpanA1(normal, c, d))
        b1 == Cross(a1, normal)
    IN  <<Normalize(a1), Normalize(b1)>>

\* --------------------------------------------------------------- getCircle
\* One point per angle: angles_cos[k]*a + angles_sin[k]*b.
getCircle(angs, a0, b0) == [angs |-> angs, a |-> a0, b |-> b0]

\* len() of a circle.
CircleLen(circ) == Len(circ.angs)

\* len() of a Pointset.
NumPoints(ps) ==
    LET upto[t \in 0..Len(ps)] ==
            IF t = 0 THEN 0 ELSE upto[t - 1] + CircleLen(ps[t].circ)
    IN  upto[Len(ps)]

\* len(np.arange(0, 2*pi - 0.0001, 2*pi/v)) = ceil(v * (1 - 0.0001/(2*pi))), v >= 1.
AnglesLen(v) == v - ((v * ArangeDen) \div TwoPiOverEps)

\* -------------------------------------------------------------------- state
VARIABLES
    pp,             \* the curve: a sequence of lattice points
    radiusArg,      \* the radius argument: [hasLen, data]
    vertex_num,     \* the vertex_num argument
    radius,         \* the per-point radius array, in 1/Scale units
    angles,         \* the angles, as multiples of 2*pi/vertex_num
    bufdist,
    lclosed,
    normals,
    vertices,
    surfaceNormals,
    n_cylinders,
    a, b,           \* the frame carried from ring to ring
    circm,          \* the current unit circle
    i,              \* the index of the line piece loop
    j,              \* the index of the cap loops
    oneRound,
    faces,
    rings,          \* history: one record per ring stored, in order
    pc,             \* where the call is
    err             \* the exception that ended the call, or "none"

vars == <<pp, radiusArg, vertex_num, radius, angles, bufdist, lclosed, normals,
          vertices, surfaceNormals, n_cylinders, a, b, circm, i, j, oneRound,
          faces, rings, pc, err>>

input == <<pp, radiusArg, vertex_num>>

N == Len(pp)

\* ------------------------------------------------------------------- inputs
Neighbours(p) ==
    {q \in Box : Abs(q[1] - p[1]) + Abs(q[2] - p[2]) + Abs(q[3] - p[3]) = 1}

\* The curves of n points that start at the origin and go by unit steps.
RECURSIVE Walks(_)
Walks(n) ==
    IF n = 1 THEN {<<Origin>>}
    ELSE UNION {{Append(w, q) : q \in Neighbours(w[Len(w)])} : w \in Walks(n - 1)}

Curves == UNION {Walks(n) : n \in 2..MaxN}

\* A radius sequence of length len: r0 at the first point, r1 at the others.
RadiusSeq(len, r0, r1) == [t \in 1..len |-> IF t = 1 THEN r0 ELSE r1]

RadiusArgs(n) ==
    {[hasLen |-> FALSE, data |-> <<r>>] : r \in Radii}
    \cup {[hasLen |-> TRUE, data |-> RadiusSeq(n, r[1], r[2])] :
             r \in {q \in Radii \X Radii : q[1] # q[2]}}
    \cup {[hasLen |-> TRUE, data |-> RadiusSeq(len, 1, 1)] : len \in {n - 1, n + 1}}

Init ==
    /\ pp \in Curves
    /\ radiusArg \in RadiusArgs(Len(pp))
    /\ vertex_num \in 0..MaxVertexNum
    /\ radius = <<>>
    /\ angles = <<>>
    /\ bufdist = 0
    /\ lclosed = FALSE
    /\ normals = <<>>
    /\ vertices = <<>>
    /\ surfaceNormals = <<>>
    /\ n_cylinders = 0
    /\ a = <<0, 0, 1>>
    /\ b = <<0, 1, 0>>
    /\ circm = getCircle(<<>>, <<0, 0, 1>>, <<0, 1, 0>>)
    /\ i = 0
    /\ j = 0
    /\ oneRound = <<>>
    /\ faces = <<>>
    /\ rings = <<>>
    /\ pc = "radius"
    /\ err = "none"

\* ------------------------------------------------------------------ helpers
Raise(e) == pc' = "raised" /\ err' = e

SeqMax(s) == CHOOSE m \in {s[t] : t \in 1..Len(s)} : \A t \in 1..Len(s) : s[t] <= m

SeqMin(s) == CHOOSE m \in {s[t] : t \in 1..Len(s)} : \A t \in 1..Len(s) : m <= s[t]

Min(x, y) == IF x < y THEN x ELSE y

\* pp[1:].distance(pp[:-1])
Dists(curve) == [t \in 1..(Len(curve) - 1) |-> Distance(curve[t + 1], curve[t])]

\* min(radius.max(), dists.min()/2.2)
BufDist(rad, curve) == Min(SeqMax(rad), Frac(BufNum, BufDen, SeqMin(Dists(curve))))

\* A closedness test against the last but one point.
IsClosedInner(curve) == PointEq(curve[1], curve[Len(curve) - 1])

\* lclosed = (pp[0] == pp[-1])
IsClosed(curve) == PointEq(curve[1], curve[Len(curve)])

\* The vector appended to pp[1:] - pp[:-1].
LastNormal(curve, closed) ==
    IF closed THEN Sub(curve[1], curve[2])
    ELSE Sub(curve[Len(curve) - 1], curve[Len(curve)])

\* normals = -1 * (pp[1:] - pp[:-1] with the last one appended).normalize()
Normals(curve, closed) ==
    [t \in 1..Len(curve) |->
        Scl(-1, Normalize(IF t < Len(curve) THEN Sub(curve[t + 1], curve[t])
                          ELSE LastNormal(curve, closed)))]

\* r*circm + center, r = sqrt(rsq)/5 * rad: one vertex per point of the circle.
Circmp(circ, rad, rsq, center) ==
    [circ |-> circ, rad |-> rad, rsq |-> rsq, c |-> center]

\* The unit circle as surface normals.
CircNormals(circ) == [cap |-> FALSE, circ |-> circ]

\* -1 * (circmp - apex).normalize()
CapNormals(circ, rad, rsq, center, apex) ==
    [cap |-> TRUE, circ |-> circ, rad |-> rad, rsq |-> rsq, c |-> center,
     apex |-> apex]

\* 25 * (1 - (j/5.0)**2): the square of r, in 1/25.
CapRsq(jj) == CapSteps * CapSteps - jj * jj

FullRsq == CapRsq(0)

\* What the stored blocks do not tell of a ring: where in the code it was stored,
\* and on which tangent it was built.
RingRec(kind, nrm) == [kind |-> kind, normal |-> nrm]

\* A store that leaves the surface normals out.
StoreNoNormals(vs, ns, ring) ==
    /\ vertices' = Append(vertices, vs)
    /\ surfaceNormals' = surfaceNormals
    /\ n_cylinders' = n_cylinders + 1
    /\ rings' = Append(rings, ring)

\* vertices.extend(..); surfaceNormals.extend(..); n_cylinders += 1
Store(vs, ns, ring) ==
    /\ vertices' = Append(vertices, vs)
    /\ surfaceNormals' = Append(surfaceNormals, ns)
    /\ n_cylinders' = n_cylinders + 1
    /\ rings' = Append(rings, ring)

\* ------------------------------------------------------------------ actions
\* A length check that only rejects a radius sequence that is too long.
LenMismatchTooLong(data, curve) == Len(data) > Len(curve)

\* len(radius) != len(pp)
LenMismatch(data, curve) == Len(data) # Len(curve)

\* "process radius": the length check, then the per-point array.
ProcessRadius ==
    /\ pc = "radius"
    /\ IF radiusArg.hasLen
       THEN IF LenMismatch(radiusArg.data, pp)
            THEN /\ Raise("ValueError")
                 /\ UNCHANGED radius
            ELSE /\ radius' = [t \in 1..Len(radiusArg.data) |->
                                  RadiusUnit * radiusArg.data[t]]
                 /\ pc' = "angles"
                 /\ UNCHANGED err
       ELSE /\ radius' = [t \in 1..N |-> RadiusUnit * radiusArg.data[1]]
            /\ pc' = "angles"
            /\ UNCHANGED err
    /\ UNCHANGED <<input, angles, bufdist, lclosed, normals, vertices, surfaceNormals,
                   n_cylinders, a, b, circm, i, j, oneRound, faces, rings>>

\* "calculate vertex points for 2D circle": pi*2/vertex_num divides by zero.
CalcAngles ==
    /\ pc = "angles"
    /\ IF vertex_num = 0
       THEN /\ Raise("ZeroDivisionError")
            /\ UNCHANGED angles
       ELSE /\ angles' = [t \in 1..AnglesLen(vertex_num) |-> t - 1]
            /\ pc' = "setup"
            /\ UNCHANGED err
    /\ UNCHANGED <<input, radius, bufdist, lclosed, normals, vertices, surfaceNormals,
                   n_cylinders, a, b, circm, i, j, oneRound, faces, rings>>

\* bufdist, lclosed, normals, the empty lists and the first circle.
Setup ==
    /\ pc = "setup"
    /\ bufdist' = BufDist(radius, pp)
    /\ lclosed' = IsClosed(pp)
    /\ normals' = Normals(pp, IsClosed(pp))
    /\ vertices' = <<>>
    /\ surfaceNormals' = <<>>
    /\ n_cylinders' = 0
    /\ LET ab == getSpanVectors(normals'[1], <<0, 0, 1>>, <<0, 1, 0>>)
       IN  /\ a' = ab[1]
           /\ b' = ab[2]
           /\ circm' = getCircle(angles, ab[1], ab[2])
    /\ i' = 0
    /\ j' = CapSteps
    /\ pc' = IF IsClosed(pp) THEN "sweep1" ELSE "startcap"
    /\ UNCHANGED <<input, radius, angles, oneRound, faces, rings, err>>

\* One pass of "for j in range(5,0,-1)".
StartCapRing ==
    /\ pc = "startcap"
    /\ LET rsq == CapRsq(j)
           center == Sub(Pos(pp[1]), Scl(Frac(j, CapSteps, bufdist), normals[1]))
       IN  Store(Circmp(circm, radius[1], rsq, center),
                 CapNormals(circm, radius[1], rsq, center, Pos(pp[1])),
                 RingRec("startcap", normals[1]))
    /\ IF j > 1
       THEN j' = j - 1 /\ pc' = "startcap"
       ELSE j' = j /\ pc' = "sweep1"
    /\ UNCHANGED <<input, radius, angles, bufdist, lclosed, normals, a, b, circm, i,
                   oneRound, faces, err>>

\* The first circle of line piece i.
SweepFirst ==
    /\ pc = "sweep1"
    /\ LET normal1 == normals[i + 1]
           point1 == Pos(pp[i + 1])
           ab == getSpanVectors(normal1, a, b)
           circ == getCircle(angles, ab[1], ab[2])
           center == Add(point1, Scl(bufdist, normal1))
       IN  /\ a' = ab[1]
           /\ b' = ab[2]
           /\ circm' = circ
           /\ Store(Circmp(circ, radius[i + 1], FullRsq, center), CircNormals(circ),
                    RingRec("sweep1", normal1))
    /\ pc' = "sweep2"
    /\ UNCHANGED <<input, radius, angles, bufdist, lclosed, normals, i, j, oneRound,
                   faces, err>>

\* An end cap after the loop, whether the line is closed or not.
AfterLoopCap == "endcap"

\* The place after the line piece loop.
AfterLoop == IF lclosed THEN "closing" ELSE "endcap"

\* A break that comes one line piece too late, that is never.
BreakLoopLate == ~lclosed /\ i = N - 1

\* if not lclosed and i == len(pp)-2: break
BreakLoop == ~lclosed /\ i = N - 2

\* The second circle of line piece i, and the break of the last piece of an open line.
SweepSecond ==
    /\ pc = "sweep2"
    /\ LET normal1 == normals[i + 1]
           point2 == Pos(pp[i + 2])
           center == Sub(point2, Scl(bufdist, normal1))
       IN  Store(Circmp(circm, radius[i + 2], FullRsq, center), CircNormals(circm),
                 RingRec("sweep2", normal1))
    /\ IF BreakLoop
       THEN pc' = AfterLoop /\ j' = 0
       ELSE pc' = "joint" /\ j' = j
    /\ UNCHANGED <<input, radius, angles, bufdist, lclosed, normals, a, b, circm, i,
                   oneRound, faces, err>>

\* point12 = 0.5858*point2 + 0.4142*(0.5*tmp)
Point12(point2, buf, normal1, normal2) ==
    LET tmp == Add(Add(point2, Scl(buf, normal2)), Sub(point2, Scl(buf, normal1)))
    IN  Add(FracV(JointW1, JointDen, point2), FracV(JointW2, JointDen, FracV(1, 2, tmp)))

\* The in-between circle after line piece i, with the tangent normal12.
JointStore(normal12) ==
    LET normal1 == normals[i + 1]
        normal2 == normals[i + 2]
        point12 == Point12(Pos(pp[i + 2]), bufdist, normal1, normal2)
        ab == getSpanVectors(normal12, a, b)
        circ == getCircle(angles, ab[1], ab[2])
    IN  /\ a' = ab[1]
        /\ b' = ab[2]
        /\ circm' = circ
        /\ Store(Circmp(circ, radius[i + 2], FullRsq, point12), CircNormals(circ),
                 RingRec("joint", normal12))
        /\ i' = i + 1
        /\ pc' = IF i + 1 < N - 1 THEN "sweep1" ELSE AfterLoop
        /\ j' = 0
        /\ UNCHANGED err

\* (normal1 + normal2).normalize() of a Point: the sum of two opposite tangents is
\* the zero vector, whose normalization divides by a norm of 0. With a numpy norm
\* the components become NaN; with a Python float norm the division raises.
Joint ==
    /\ pc = "joint"
    /\ LET sum == Add(normals[i + 1], normals[i + 2])
       IN  \/ JointStore(Normalize(sum))
           \/ /\ sum = <<0, 0, 0>>
              /\ Raise("ZeroDivisionError")
              /\ UNCHANGED <<vertices, surfaceNormals, n_cylinders, rings, a, b, circm, i, j>>
    /\ UNCHANGED <<input, radius, angles, bufdist, lclosed, normals, oneRound, faces>>

\* One pass of "for j in range(0,6)".
EndCapRing ==
    /\ pc = "endcap"
    /\ LET rsq == CapRsq(j)
           center == Add(Pos(pp[N]), Scl(Frac(j, CapSteps, bufdist), normals[N]))
       IN  Store(Circmp(circm, radius[N], rsq, center),
                 CapNormals(circm, radius[N], rsq, center, Pos(pp[N])),
                 RingRec("endcap", normals[N]))
    /\ IF j < CapSteps
       THEN j' = j + 1 /\ pc' = "endcap"
       ELSE j' = j /\ pc' = "round"
    /\ UNCHANGED <<input, radius, angles, bufdist, lclosed, normals, a, b, circm, i,
                   oneRound, faces, err>>

\* "Otherwise add the starting circle to the line end."
ClosingRing ==
    /\ pc = "closing"
    /\ LET normal1 == normals[N]
           point1 == Pos(pp[N])
           ab == getSpanVectors(normal1, a, b)
           circ == getCircle(angles, ab[1], ab[2])
           center == Add(point1, Scl(bufdist, normal1))
       IN  /\ a' = ab[1]
           /\ b' = ab[2]
           /\ circm' = circ
           /\ Store(Circmp(circ, radius[1], FullRsq, center), CircNormals(circ),
                    RingRec("closing", normal1))
    /\ pc' = "round"
    /\ UNCHANGED <<input, radius, angles, bufdist, lclosed, normals, i, j, oneRound,
                   faces, err>>

\* ------------------------------------------------------------------- faces
\* A first face with the opposite winding.
FirstFaceFlipped(v) == <<0, v, v + 1, 1>>

FirstFace(v) == <<0, 1, v + 1, v>>

\* A closing face whose last index is one ring too far.
LastFaceOff(v) == <<v - 1, 0, v, 2 * v>>

LastFace(v) == <<v - 1, 0, v, 2 * v - 1>>

\* oneRound: firstFace shifted by 0..v-2, then lastFace, flat.
OneRound(v) ==
    [t \in 1..(4 * v) |->
        LET q == (t - 1) \div 4
            c == ((t - 1) % 4) + 1
        IN  IF q < v - 1 THEN FirstFace(v)[c] + q ELSE LastFace(v)[c]]

\* np.concatenate of oneRound + k*vertex_num, k in range(n - 1).
Concatenate(round, n, v) ==
    [t \in 1..((n - 1) * Len(round)) |->
        round[((t - 1) % Len(round)) + 1] + ((t - 1) \div Len(round)) * v]

\* faces.shape = faces.shape[0]/4, 4. The division is that of two ints in the
\* Python 2 the module was written for: an integer division.
Reshape(flat) ==
    [q \in 1..(Len(flat) \div 4) |->
        <<flat[4 * q - 3], flat[4 * q - 2], flat[4 * q - 1], flat[4 * q]>>]

\* "define single round"
DefineRound ==
    /\ pc = "round"
    /\ oneRound' = OneRound(vertex_num)
    /\ pc' = "faces"
    /\ UNCHANGED <<input, radius, angles, bufdist, lclosed, normals, vertices,
                   surfaceNormals, n_cylinders, a, b, circm, i, j, faces, rings, err>>

\* "calculate face data", and the return of the mesh.
CalcFaces ==
    /\ pc = "faces"
    /\ faces' = Reshape(Concatenate(oneRound, n_cylinders, vertex_num))
    /\ pc' = "done"
    /\ UNCHANGED <<input, radius, angles, bufdist, lclosed, normals, vertices,
                   surfaceNormals, n_cylinders, a, b, circm, i, j, oneRound, rings, err>>

Next ==
    \/ ProcessRadius
    \/ CalcAngles
    \/ Setup
    \/ StartCapRing
    \/ SweepFirst
    \/ SweepSecond
    \/ Joint
    \/ EndCapRing
    \/ ClosingRing
    \/ DefineRound
    \/ CalcFaces

Spec == Init /\ [][Next]_vars

\* ------------------------------------------------------------------- claims
Returned == pc = "done"

\* The curve is closed: its first and last points are equal.
ClosedCurve == pp[1] = pp[Len(pp)]

RingKinds(kinds) == {t \in 1..Len(rings) : rings[t].kind \in kinds}

\* The ring count of an open curve of n points.
OpenRingCount(n) == 5 + 2 * (n - 1) + (n - 2) + 6

\* C1: once the radius has been processed, a call whose radius is a sequence of a
\* length other than the number of curve points has failed with the input error,
\* and holds no ring, no vertex, no normal and no face; it never returns a mesh.
C1_RadiusMismatchFails ==
    (radiusArg.hasLen /\ Len(radiusArg.data) # Len(pp) /\ pc # "radius")
        => /\ pc = "raised"
           /\ err = "ValueError"
           /\ rings = <<>>
           /\ vertices = <<>>
           /\ surfaceNormals = <<>>
           /\ faces = <<>>
           /\ n_cylinders = 0

C1_Witness ==
    /\ radiusArg.hasLen
    /\ Len(radiusArg.data) = Len(pp) - 1
    /\ pc = "raised"

\* C2: a call with vertex_num < 3 stores no ring and returns no mesh.
C2_SmallVertexNumFails ==
    vertex_num < 3 => (pc # "done" /\ rings = <<>>)

C4_ClosedNoCaps ==
    (Returned /\ ClosedCurve)
        => /\ RingKinds({"startcap", "endcap"}) = {}
           /\ n_cylinders = Cardinality(RingKinds({"sweep1", "sweep2", "closing"}))
                            + Cardinality(RingKinds({"joint"}))
           /\ Cardinality(RingKinds({"sweep1", "sweep2"})) = 2 * (Len(pp) - 1)

C4_Witness ==
    /\ Returned
    /\ ClosedCurve
    /\ Len(pp) = 5
    /\ n_cylinders = 13

Quad(k, jj, v) ==
    <<k * v + jj, k * v + ((jj + 1) % v), (k + 1) * v + ((jj + 1) % v), (k + 1) * v + jj>>

\* C6: the faces of a returned mesh are, round by round and in angular order,
\* the quads (k*v+j, k*v+(j+1)%v, (k+1)*v+(j+1)%v, (k+1)*v+j), one round for
\* every pair of consecutive rings, and no quad is there twice.
C6_FacesWinding ==
    Returned
        => /\ Len(faces) = (n_cylinders - 1) * vertex_num
           /\ \A k \in 0..(n_cylinders - 2) : \A jj \in 0..(vertex_num - 1) :
                 faces[k * vertex_num + jj + 1] = Quad(k, jj, vertex_num)
           /\ Cardinality({faces[q] : q \in 1..Len(faces)}) = Len(faces)

C6_Witness ==
    /\ Returned
    /\ vertex_num = 3
    /\ faces[3] = <<2, 0, 3, 5>>
    /\ faces[6] = <<5, 3, 6, 8>>

\* The vertex and normal sequences are as long as the rings stored times vertex_num.
AlignedLengths ==
    /\ NumPoints(vertices) = n_cylinders * vertex_num
    /\ NumPoints(surfaceNormals) = NumPoints(vertices)
    /\ Len(vertices) = n_cylinders
    /\ Len(surfaceNormals) = n_cylinders
    /\ Len(rings) = n_cylinders

Assembled == pc \in {"round", "faces", "done"}

\* C8: the last ring of a closed curve is built as its first sweep ring is: on the
\* same tangent, at the same center, with the same radius and the same frame, and
\* it is no joint ring.
C8_ClosingRingAsFirst ==
    (ClosedCurve /\ Assembled)
        => LET first == rings[1]
               last == rings[Len(rings)]
               firstv == vertices[1]
               lastv == vertices[Len(vertices)]
           IN  /\ first.kind = "sweep1"
               /\ last.kind # "joint"
               /\ last.normal = first.normal
               /\ lastv.c = firstv.c
               /\ lastv.rad = firstv.rad
               /\ lastv.circ = firstv.circ

\* The direction of line piece t.
Piece(t) == Sub(pp[t + 1], pp[t])

\* All the line pieces have one direction.
Straight == \A t \in 1..(Len(pp) - 1) : Piece(t) = Piece(1)

\* C9: on a straight curve every ring stored, whether of a cap, of a line piece
\* or of a joint, has the frame of the first ring, and so has every vertex; the
\* frame carried along is that frame too.
C9_StraightFrameFixed ==
    (Straight /\ rings # <<>>)
        => /\ \A t \in 1..Len(vertices) :
                 /\ vertices[t].circ.a = vertices[1].circ.a
                 /\ vertices[t].circ.b = vertices[1].circ.b
                 /\ surfaceNormals[t].circ = vertices[t].circ
           /\ a = vertices[1].circ.a
           /\ b = vertices[1].circ.b

C9_Witness ==
    /\ Straight
    /\ Len(pp) = 3
    /\ Returned
    /\ Cardinality(RingKinds({"joint"})) = 1
    /\ vertex_num = 3

\* Two consecutive line pieces have opposite directions.
Reversal == \E t \in 1..(Len(pp) - 2) : Piece(t) = Scl(-1, Piece(t + 1))

\* Two unit vectors orthogonal to each other (a frame vector is held by a
\* representative of its ray: it is a unit vector unless it is NaN).
Orthonormal(x, y) == ~IsNaN(x) /\ ~IsNaN(y) /\ Dot(x, y) = 0

\* C10: on a curve with a direction reversal the tube is built without an
\* exception, and the frame of every ring is an orthonormal pair.
C10_ReversalFramesValid ==
    Reversal
        => /\ pc = "raised" => rings = <<>>
           /\ \A t \in 1..Len(vertices) :
                 Orthonormal(vertices[t].circ.a, vertices[t].circ.b)

\* The kind of the t-th ring of a curve of n points: the start cap of an open
\* curve, then sweep, sweep, joint for every line piece (no joint after the last
\* piece of an open curve), then the end cap of an open curve or the closing ring.
KindAt(t, n, closed) ==
    LET cap == IF closed THEN 0 ELSE 5
        body == IF closed THEN 3 * (n - 1) ELSE 3 * (n - 1) - 1
        u == t - cap
    IN  IF t <= cap THEN "startcap"
        ELSE IF u <= body
             THEN IF (u - 1) % 3 = 0 THEN "sweep1"
                  ELSE IF (u - 1) % 3 = 1 THEN "sweep2" ELSE "joint"
             ELSE IF closed THEN "closing" ELSE "endcap"

\* The number of rings of a curve of n points.
RingTotal(n, closed) == IF closed THEN 3 * (n - 1) + 1 ELSE OpenRingCount(n)

\* C11: the rings stored so far are, in order, the first rings of the sequence
\* start cap (5, open curves), then per line piece two sweep rings on one frame
\* and a joint ring on a frame propagated for it (no joint after the last piece of
\* an open curve), then the end cap (6, open curves) or the closing ring; once the
\* end is passed the sequence is complete and nothing is stored after it.
C11_RingOrder ==
    /\ Len(rings) <= RingTotal(Len(pp), ClosedCurve)
    /\ \A t \in 1..Len(rings) : rings[t].kind = KindAt(t, Len(pp), ClosedCurve)
    /\ \A t \in 1..Len(rings) :
          /\ rings[t].kind = "sweep2" => vertices[t].circ = vertices[t - 1].circ
          /\ rings[t].kind = "joint" =>
                <<vertices[t].circ.a, vertices[t].circ.b>>
                    = getSpanVectors(rings[t].normal, vertices[t - 1].circ.a,
                                     vertices[t - 1].circ.b)
    /\ Assembled => Len(rings) = RingTotal(Len(pp), ClosedCurve)

C11_Witness ==
    /\ Returned
    /\ ~ClosedCurve
    /\ Len(pp) = 4
    /\ Len(rings) = 19
    /\ rings[8].kind = "joint"
    /\ rings[11].kind = "joint"
    /\ rings[13].kind = "sweep2"
    /\ rings[14].kind = "endcap"
    /\ vertices[8].circ # vertices[7].circ

\* The center of the t-th ring stored.
Center(t) == vertices[t].c

\* C12: on a straight open curve the centers of the rings, in the order the
\* rings are stored, never go back along the direction of the curve.
C12_CentersMonotone ==
    (Straight /\ ~ClosedCurve)
        => \A t \in 1..(Len(vertices) - 1) :
              Dot(Sub(Center(t + 1), Center(t)), Piece(1)) >= 0

\* ------------------------------------------------- getSpanVectors on its own
\* The unit vectors with a representative of components within MaxComp.
SpanDirs ==
    {u \in (-MaxComp..MaxComp) \X (-MaxComp..MaxComp) \X (-MaxComp..MaxComp) :
        Normalize(u) = u}

\* A call getSpanVectors(normal, a, b) about to be made: a unit tangent in
\* normals, an orthonormal pair in a and b (circm keeps the pair given).
SpanInit ==
    /\ a \in SpanDirs
    /\ b \in {u \in SpanDirs : Dot(u, a) = 0}
    /\ normals \in {<<u>> : u \in SpanDirs}
    /\ circm = getCircle(<<>>, a, b)
    /\ pp = <<Origin, Origin>>
    /\ radiusArg = [hasLen |-> FALSE, data |-> <<1>>]
    /\ vertex_num = 0
    /\ radius = <<>>
    /\ angles = <<>>
    /\ bufdist = 0
    /\ lclosed = FALSE
    /\ vertices = <<>>
    /\ surfaceNormals = <<>>
    /\ n_cylinders = 0
    /\ i = 0
    /\ j = 0
    /\ oneRound = <<>>
    /\ faces = <<>>
    /\ rings = <<>>
    /\ pc = "span"
    /\ err = "none"

\* The call: a, b = getSpanVectors(normal, a, b).
SpanApply ==
    /\ pc = "span"
    /\ LET ab == getSpanVectors(normals[1], a, b)
       IN  a' = ab[1] /\ b' = ab[2]
    /\ pc' = "spanned"
    /\ UNCHANGED <<input, radius, angles, bufdist, lclosed, normals, vertices,
                   surfaceNormals, n_cylinders, circm, i, j, oneRound, faces, rings, err>>

SpanNext == SpanApply

SpecSpan == SpanInit /\ [][SpanNext]_vars

\* C13: for a unit tangent and an orthonormal previous pair, the tangent along
\* the previous b or against it included, getSpanVectors returns two unit vectors
\* that are orthogonal to each other and to the tangent.
C13_SpanOrthonormal ==
    pc = "spanned"
        => /\ Orthonormal(a, b)
           /\ Normalize(a) = a
           /\ Normalize(b) = b
           /\ Dot(a, normals[1]) = 0
           /\ Dot(b, normals[1]) = 0

\* The fallback branch was taken, on a tangent against the previous b.
C13_Witness ==
    /\ pc = "spanned"
    /\ Cross(circm.b, normals[1]) = <<0, 0, 0>>
    /\ Dot(circm.b, normals[1]) < 0
    /\ Orthonormal(a, b)

====
